---- MODULE Spec2Model ----
(***************************************************************************)
(* A model of git-from-scratch: the entry point with its two modes, the    *)
(* byte scanner primitives, the object header decoder, the blob, tree and  *)
(* commit body decoders, and the branch lister.                            *)
(*                                                                         *)
(* Bytes are integers 0..255 and strings are sequences of bytes.  The      *)
(* bufio.Scanner is its input (stream), the number of one-byte tokens it   *)
(* has delivered (pos) and the way the input ends (endErr: a read error,   *)
(* otherwise a clean end of file).  Standard output is the sequence out of *)
(* the values the print calls were given.                                  *)
(***************************************************************************)
EXTENDS Integers, Sequences, FiniteSets

(***************************************************************************)
(* Program constants and literals.                                         *)
(***************************************************************************)
ObjectShaLength == 20

TruncatedSize == 3072

NUL == 0

SP == 32

LF == 10

SLASH == 47

TypeTree == <<116, 114, 101, 101>>

TypeBlob == <<98, 108, 111, 98>>

TypeCommit == <<99, 111, 109, 109, 105, 116>>

hextable == <<48, 49, 50, 51, 52, 53, 54, 55, 56, 57, 97, 98, 99, 100, 101, 102>>

(***************************************************************************)
(* Bounds of the model.                                                    *)
(***************************************************************************)
MaxSmallBody == 3

MaxOver == 2

BigBody == 4000

MaxEntries == 2

MaxBranches == 2

(***************************************************************************)
(* Sequence helpers.                                                       *)
(***************************************************************************)
Min(S) == CHOOSE x \in S : \A y \in S : x <= y

Positions(s, from, b) == {i \in (from + 1)..Len(s) : s[i] = b}

RECURSIVE Split(_, _)
\* strings.Split(s, sep) for a one-byte separator: every field, empty ones too.
Split(s, sep) ==
    IF Positions(s, 0, sep) = {}
    THEN <<s>>
    ELSE LET j == Min(Positions(s, 0, sep))
         IN  <<SubSeq(s, 1, j - 1)>> \o Split(SubSeq(s, j + 1, Len(s)), sep)

RECURSIVE digitsValue(_, _)
\* The accumulation loop of strconv.Atoi: n = n*10 + digit, left to right.
digitsValue(s, n) ==
    IF s = <<>> THEN n ELSE digitsValue(Tail(s), n * 10 + (Head(s) - 48))

RECURSIVE digitsValueDropped(_, _)
digitsValueDropped(s, n) ==
    IF s = <<>> THEN n ELSE digitsValueDropped(Tail(s), n + (Head(s) - 48))

IsDigit(b) == b >= 48 /\ b <= 57

AtoiDigitsDropped(s) ==
    LET signed == s # <<>> /\ (s[1] = 45 \/ s[1] = 43)
        digits == IF signed THEN Tail(s) ELSE s
    IN  IF digits = <<>> \/ \E i \in 1..Len(digits) : ~IsDigit(digits[i])
        THEN [err |-> TRUE, val |-> 0]
        ELSE [err |-> FALSE,
              val |-> IF s[1] = 45 THEN 0 - digitsValueDropped(digits, 0)
                      ELSE digitsValueDropped(digits, 0)]

\* strconv.Atoi: an optional sign, then one or more decimal digits.
Atoi(s) ==
    LET signed == s # <<>> /\ (s[1] = 45 \/ s[1] = 43)
        digits == IF signed THEN Tail(s) ELSE s
    IN  IF digits = <<>> \/ \E i \in 1..Len(digits) : ~IsDigit(digits[i])
        THEN [err |-> TRUE, val |-> 0]
        ELSE [err |-> FALSE,
              val |-> IF s[1] = 45 THEN 0 - digitsValue(digits, 0)
                      ELSE digitsValue(digits, 0)]

hextableUpper == <<48, 49, 50, 51, 52, 53, 54, 55, 56, 57, 65, 66, 67, 68, 69, 70>>

EncodeToStringUpper(bytes) ==
    [i \in 1..(2 * Len(bytes)) |->
        IF i % 2 = 1 THEN hextableUpper[(bytes[(i + 1) \div 2] \div 16) + 1]
        ELSE hextableUpper[(bytes[i \div 2] % 16) + 1]]

\* hex.EncodeToString: two characters of hextable per byte, high nibble first.
EncodeToString(bytes) ==
    [i \in 1..(2 * Len(bytes)) |->
        IF i % 2 = 1 THEN hextable[(bytes[(i + 1) \div 2] \div 16) + 1]
        ELSE hextable[(bytes[i \div 2] % 16) + 1]]

(***************************************************************************)
(* The scanner primitives.  A scan starts with pos tokens delivered and    *)
(* yields the bytes it returns, the new pos and how it ended:              *)
(*   "ok"     it returned normally, having met no end of input;            *)
(*   "eof"    it returned normally at a clean end of input;                *)
(*   "panic"  panic("Unexpected EOF");                                     *)
(*   "fatal"  log.Fatal(err), the input ended with a read error.           *)
(***************************************************************************)
scanSingleByte(s, p, throwOnEOF, readErr) ==
    IF p < Len(s)
    THEN [byte |-> s[p + 1], isFailure |-> FALSE, pos |-> p + 1, end |-> "ok"]
    ELSE IF readErr
    THEN [byte |-> 0, isFailure |-> TRUE, pos |-> p, end |-> "fatal"]
    ELSE IF throwOnEOF
    THEN [byte |-> 0, isFailure |-> TRUE, pos |-> p, end |-> "panic"]
    ELSE [byte |-> 0, isFailure |-> TRUE, pos |-> p, end |-> "eof"]

\* The loop reads single bytes up to and including the first delimiter; when
\* the input runs out first, the failing scanSingleByte decides the outcome.
scanBytesUntilDelimiter(s, p, delimiter, throwOnEOF, readErr) ==
    IF Positions(s, p, delimiter) # {}
    THEN LET j == Min(Positions(s, p, delimiter))
         IN  [bytes |-> SubSeq(s, p + 1, j), pos |-> j, end |-> "ok"]
    ELSE LET last == scanSingleByte(s, Len(s), throwOnEOF, readErr)
         IN  [bytes |-> IF last.end = "eof" THEN SubSeq(s, p + 1, Len(s)) ELSE <<>>,
              pos |-> Len(s), end |-> last.end]

scanCountBytesPadded(s, p, byteCount, throwOnEOF, readErr) ==
    IF byteCount <= 0
    THEN [bytes |-> <<>>, pos |-> p, end |-> "ok"]
    ELSE IF p + byteCount <= Len(s)
    THEN [bytes |-> SubSeq(s, p + 1, p + byteCount), pos |-> p + byteCount, end |-> "ok"]
    ELSE IF readErr
    THEN [bytes |-> <<>>, pos |-> Len(s), end |-> "fatal"]
    ELSE [bytes |-> SubSeq(s, p + 1, Len(s)) \o [i \in 1..(p + byteCount - Len(s)) |-> 0],
          pos |-> Len(s), end |-> "ok"]

scanCountBytesOffByOne(s, p, byteCount, throwOnEOF, readErr) ==
    IF byteCount <= 1
    THEN [bytes |-> <<>>, pos |-> p, end |-> "ok"]
    ELSE IF p + byteCount - 1 <= Len(s)
    THEN [bytes |-> SubSeq(s, p + 1, p + byteCount - 1), pos |-> p + byteCount - 1,
          end |-> "ok"]
    ELSE [bytes |-> <<>>, pos |-> Len(s),
          end |-> scanSingleByte(s, Len(s), TRUE, readErr).end]

\* for i := 1; i <= byteCount; i++: reads byteCount bytes (none when
\* byteCount <= 0); every read passes throwOnEOF = true, whatever the
\* parameter says.
scanCountBytes(s, p, byteCount, throwOnEOF, readErr) ==
    IF byteCount <= 0
    THEN [bytes |-> <<>>, pos |-> p, end |-> "ok"]
    ELSE IF p + byteCount <= Len(s)
    THEN [bytes |-> SubSeq(s, p + 1, p + byteCount), pos |-> p + byteCount, end |-> "ok"]
    ELSE [bytes |-> <<>>, pos |-> Len(s),
          end |-> scanSingleByte(s, Len(s), TRUE, readErr).end]

(***************************************************************************)
(* Standard output: one value per print call.                              *)
(*   summary      "Type: %s, len: %d\n"              a = type, n = length  *)
(*   text         fmt.Print of a body                c = the bytes         *)
(*   truncated    "\n\n(... truncated to 3KB)\n"                           *)
(*   entry        "fileMode: %s, filename: %s, SHA: %s\n"  a, b, c         *)
(*   unsupported  "Parsing this tag-type not yet supported"                *)
(*   branch       "[* ]<name> <hash>"   a = name, b = hash, n = 1 current  *)
(*   noflag       "No flag selected.. Try --help|-h"                       *)
(***************************************************************************)
Ev(kind, a, b, c, n) == [kind |-> kind, a |-> a, b |-> b, c |-> c, n |-> n]

NoHeader == [objectType |-> <<>>, length |-> 0]

\* parseObjectHeader: the bytes up to the first NUL, the NUL cut off, split
\* on spaces into exactly two fields, the second one through Atoi.
parseObjectHeader(s, p, readErr) ==
    LET r == scanBytesUntilDelimiter(s, p, NUL, TRUE, readErr)
        headerString == SubSeq(r.bytes, 1, Len(r.bytes) - 1)
        headerComponents == Split(headerString, SP)
        objectLen == Atoi(headerComponents[2])
    IN  IF r.end # "ok"
        THEN [end |-> r.end, eof |-> r.end = "panic", pos |-> r.pos, header |-> NoHeader]
        ELSE IF Len(headerComponents) # 2 \/ objectLen.err
        THEN [end |-> "panic", eof |-> FALSE, pos |-> r.pos, header |-> NoHeader]
        ELSE [end |-> "ok", eof |-> FALSE, pos |-> r.pos,
              header |-> [objectType |-> headerComponents[1], length |-> objectLen.val]]

headerSummarySupportedOnly(h) ==
    IF h.objectType \in {TypeTree, TypeBlob, TypeCommit}
    THEN <<Ev("summary", h.objectType, <<>>, <<>>, h.length)>>
    ELSE <<>>

\* fmt.Printf("Type: %s, len: %d\n", header.objectType, header.length)
headerSummary(h) == <<Ev("summary", h.objectType, <<>>, <<>>, h.length)>>

bodyDecoderForDefaultCommit(objectType) ==
    IF objectType = TypeTree THEN "tree"
    ELSE IF objectType = TypeBlob THEN "blob"
    ELSE "commit"

\* The if/else chain of printObjectFileContent on header.objectType.
bodyDecoderFor(objectType) ==
    IF objectType = TypeTree THEN "tree"
    ELSE IF objectType = TypeBlob THEN "blob"
    ELSE IF objectType = TypeCommit THEN "commit"
    ELSE "unsupported"

blobReadCountAll(byteCount) == byteCount

\* The count printBlobContent reads: at most TruncatedSize.
blobReadCount(byteCount) ==
    IF byteCount > TruncatedSize THEN TruncatedSize ELSE byteCount

\* printBlobContent: reads the count, prints what it read, then the notice.
printBlobContent(s, p, byteCount, readErr) ==
    LET r == scanCountBytes(s, p, blobReadCount(byteCount), TRUE, readErr)
    IN  IF r.end # "ok"
        THEN [end |-> r.end, eof |-> r.end = "panic", pos |-> r.pos, out |-> <<>>]
        ELSE [end |-> "ok", eof |-> FALSE, pos |-> r.pos,
              out |-> <<Ev("text", <<>>, <<>>, r.bytes, 0)>> \o
                      (IF byteCount > TruncatedSize
                       THEN <<Ev("truncated", <<>>, <<>>, <<>>, 0)>> ELSE <<>>)]

\* printCommitContent: reads byteCount bytes and prints them.
printCommitContent(s, p, byteCount, readErr) ==
    LET r == scanCountBytes(s, p, byteCount, TRUE, readErr)
    IN  IF r.end # "ok"
        THEN [end |-> r.end, eof |-> r.end = "panic", pos |-> r.pos, out |-> <<>>]
        ELSE [end |-> "ok", eof |-> FALSE, pos |-> r.pos,
              out |-> <<Ev("text", <<>>, <<>>, r.bytes, 0)>>]

\* One turn of printTreeContent's loop.  end is "return" when the loop ends,
\* "ok" when an entry was printed; at is where a clean end of input was met.
printTreeEntry(s, p, readErr) ==
    LET m == scanBytesUntilDelimiter(s, p, NUL, FALSE, readErr)
        fileMetadataBytesLen == Len(m.bytes)
        fileMetadataComponents == Split(SubSeq(m.bytes, 1, fileMetadataBytesLen - 1), SP)
        sha == scanCountBytes(s, m.pos, ObjectShaLength, TRUE, readErr)
    IN  IF m.end = "fatal"
        THEN [end |-> "fatal", at |-> "none", pos |-> m.pos, out |-> <<>>]
        ELSE IF fileMetadataBytesLen = 0
        THEN [end |-> "return", at |-> "treeEntryStart", pos |-> m.pos, out |-> <<>>]
        ELSE IF m.bytes[fileMetadataBytesLen] # 0
        THEN [end |-> "panic", at |-> "treeMetadata", pos |-> m.pos, out |-> <<>>]
        ELSE IF Len(fileMetadataComponents) # 2
        THEN [end |-> "panic", at |-> "none", pos |-> m.pos, out |-> <<>>]
        ELSE IF sha.end # "ok"
        THEN [end |-> sha.end, at |-> IF sha.end = "panic" THEN "treeSha" ELSE "none",
              pos |-> sha.pos, out |-> <<>>]
        ELSE [end |-> "ok", at |-> "none", pos |-> sha.pos,
              out |-> <<Ev("entry", fileMetadataComponents[1], fileMetadataComponents[2],
                           EncodeToString(sha.bytes), 0)>>]

\* readFile: the first line of the file, its last byte cut off.  The slice
\* [:len-1] of an empty result panics.
readFile(file) ==
    LET r == scanBytesUntilDelimiter(file.content, 0, LF, FALSE, FALSE)
    IN  IF ~file.exists THEN [end |-> "fatal", text |-> <<>>]
        ELSE IF Len(r.bytes) = 0 THEN [end |-> "panic", text |-> <<>>]
        ELSE [end |-> "ok", text |-> SubSeq(r.bytes, 1, Len(r.bytes) - 1)]

\* One turn of listBranches' loop over the directory entries.
listBranch(branch, current_branch) ==
    LET branch_hash == readFile([exists |-> TRUE, content |-> branch.content])
        parts == Split(current_branch, SLASH)
    IN  IF branch_hash.end # "ok" THEN [end |-> branch_hash.end, out |-> <<>>]
        ELSE IF Len(parts) < 3 THEN [end |-> "panic", out |-> <<>>]
        ELSE [end |-> "ok",
              out |-> <<Ev("branch", branch.name, branch_hash.text, <<>>,
                           IF branch.name = parts[3] THEN 1 ELSE 0)>>]

(***************************************************************************)
(* The inputs of a run: the command line, the object file and the refs.    *)
(***************************************************************************)
RECURSIVE DecimalText(_)
DecimalText(n) ==
    IF n < 10 THEN <<48 + n>> ELSE DecimalText(n \div 10) \o <<48 + (n % 10)>>

\* The body lengths tried: small ones, those around the blob cap, a big one.
LenSet ==
    (0..MaxSmallBody) \cup ((TruncatedSize - 1)..(TruncatedSize + MaxOver - 1)) \cup {BigBody}

\* Second fields of a header: decimal lengths, signed ones, a leading zero,
\* and texts that are no integer.
LenTexts ==
    {DecimalText(n) : n \in LenSet} \cup
    {<<45>> \o DecimalText(MaxSmallBody), <<43>> \o DecimalText(MaxSmallBody),
     <<48>> \o DecimalText(MaxSmallBody), <<>>, <<120>>,
     DecimalText(MaxSmallBody) \o <<120>>, <<45>>}

TypeTag == <<116, 97, 103>>

Types == {TypeBlob, TypeTree, TypeCommit, TypeTag, <<>>}

Shapes == {"ok", "nospace", "twospace", "trailspace", "nonul"}

HeaderText(type, shape, lenText) ==
    CASE shape = "ok" -> type \o <<SP>> \o lenText \o <<NUL>>
      [] shape = "nospace" -> type \o lenText \o <<NUL>>
      [] shape = "twospace" -> type \o <<SP, SP>> \o lenText \o <<NUL>>
      [] shape = "trailspace" -> type \o <<SP>> \o lenText \o <<SP, NUL>>
      [] shape = "nonul" -> type \o <<SP>> \o lenText

\* Raw body bytes: letters with NUL, space and newline bytes among them.
RawByte(i) ==
    IF i % 7 = 0 THEN NUL
    ELSE IF i % 11 = 0 THEN SP
    ELSE IF i % 13 = 0 THEN LF
    ELSE 97 + (i % 5)

RawBody(n) == [i \in 1..n |-> RawByte(i)]

\* Well-formed tree entries; the hashes hold NUL, newline and space bytes.
EntryPool ==
    << [mode |-> <<49, 48, 48, 54, 52, 52>>,
        name |-> <<102, 105, 108, 101, 46, 116, 120, 116>>,
        sha |-> [i \in 1..ObjectShaLength |-> i - 1]],
       [mode |-> <<52, 48, 48, 48, 48>>,
        name |-> <<100>>,
        sha |-> [i \in 1..ObjectShaLength |-> 0]],
       [mode |-> <<49, 48, 48, 55, 53, 53>>,
        name |-> <<120, 46, 103, 111>>,
        sha |-> [i \in 1..ObjectShaLength |-> (i * 37 + 32 - 37) % 256]] >>

EntryBytes(e) == e.mode \o <<SP>> \o e.name \o <<NUL>> \o e.sha

\* What follows the well-formed entries: nothing, or a broken entry.
TreeTails ==
    << <<>>,
       <<49, 48, 48, 54, 52, 52, SP, 102, 105>>,
       <<49, 48, 48, 54, 52, 52, SP, 102, NUL, 1, 2, 3, 0, 5>>,
       <<102, 105, NUL>> \o [i \in 1..ObjectShaLength |-> i],
       <<49, SP, 102, SP, 105, NUL>> \o [i \in 1..ObjectShaLength |-> i],
       <<NUL>> >>

RECURSIVE TreeBytes(_)
TreeBytes(idx) ==
    IF idx = <<>> THEN <<>> ELSE EntryBytes(EntryPool[Head(idx)]) \o TreeBytes(Tail(idx))

EntryLists == UNION {[1..k -> 1..Len(EntryPool)] : k \in 0..MaxEntries}

In(type, shape, lenText, kind, rawLen, entries, tail) ==
    [type |-> type, shape |-> shape, lenText |-> lenText, kind |-> kind,
     rawLen |-> rawLen, entries |-> entries, tail |-> tail]

NoInput == In(<<>>, "none", <<>>, "none", 0, <<>>, 1)

\* Every header before a few bodies; every length before blob and commit
\* bodies; every tree body after a well-formed header.
StreamInputs ==
    {In(t, sh, lt, "raw", n, <<>>, 1) :
        t \in Types, sh \in Shapes, lt \in LenTexts, n \in {0, MaxSmallBody}} \cup
    {In(t, sh, lt, "tree", 0, <<1>>, 1) :
        t \in Types, sh \in Shapes, lt \in LenTexts} \cup
    {In(t, "ok", lt, "raw", n, <<>>, 1) :
        t \in {TypeBlob, TypeCommit}, lt \in LenTexts, n \in LenSet} \cup
    {In(t, "ok", DecimalText(n), "tree", 0, es, tl) :
        t \in Types, n \in {0, MaxSmallBody}, es \in EntryLists,
        tl \in 1..Len(TreeTails)}

BodyOf(in) ==
    IF in.kind = "raw" THEN RawBody(in.rawLen)
    ELSE TreeBytes(in.entries) \o TreeTails[in.tail]

StreamOf(in) == HeaderText(in.type, in.shape, in.lenText) \o BodyOf(in)

\* A 40-character hex hash, as a branch file holds it.
HashText == EncodeToString(EntryPool[1].sha)

BranchName(i) == <<96 + i>>

HeadFiles ==
    {<<114, 101, 102, 58, SP, 114, 101, 102, 115, SLASH, 104, 101, 97, 100, 115, SLASH>>
        \o BranchName(1) \o <<LF>>,
     <<114, 101, 102, 58, SP, 114, 101, 102, 115, SLASH, 104, 101, 97, 100, 115, SLASH>>
        \o BranchName(1),
     HashText \o <<LF>>,
     <<>>}

BranchFiles == {HashText \o <<LF>>, HashText, HashText \o <<LF>> \o HashText \o <<LF>>, <<>>}

RECURSIVE SortedSeq(_)
SortedSeq(S) ==
    IF S = {} THEN <<>> ELSE <<Min(S)>> \o SortedSeq(S \ {Min(S)})

\* ioutil.ReadDir returns the entries sorted by name.
BranchDirs ==
    UNION {{[i \in 1..Cardinality(S) |->
                [name |-> BranchName(SortedSeq(S)[i]), content |-> f[SortedSeq(S)[i]]]] :
            f \in [S -> BranchFiles]} : S \in SUBSET (1..MaxBranches)}

(***************************************************************************)
(* The state of a run.                                                     *)
(***************************************************************************)
VARIABLES
    flags,          \* the command line: [branch, hash], hash = a hash was given
    objectExists,   \* os.Open of the object file succeeds
    zlibValid,      \* zlib.NewReader accepts the file
    stream,         \* the decompressed bytes of the object file
    endErr,         \* the decompressed stream ends with a read error
    input,          \* how stream was built
    refsDirOk,      \* ioutil.ReadDir(".git/refs/heads") succeeds
    head,           \* .git/HEAD: [exists, content]
    branches,       \* the directory entries: <<[name, content]>>
    pc,             \* where the run is
    exit,           \* "running", "ok", "panic" (panic) or "fatal" (log.Fatal)
    pos,            \* tokens the scanner has delivered
    header,         \* the objectHeader parsed
    out,            \* standard output
    fileOpen,       \* objectFile is open
    zOpen,          \* contentReader is open
    eofAt,          \* where the scanner met a clean end of input
    current_branch, \* listBranches' current_branch
    bi              \* listBranches' loop index

vars ==
    <<flags, objectExists, zlibValid, stream, endErr, input, refsDirOk, head, branches,
      pc, exit, pos, header, out, fileOpen, zOpen, eofAt, current_branch, bi>>

inputs == <<flags, objectExists, zlibValid, stream, endErr, input, refsDirOk, head, branches>>

InitRun ==
    /\ pc = "main"
    /\ exit = "running"
    /\ pos = 0
    /\ header = NoHeader
    /\ out = <<>>
    /\ fileOpen = FALSE
    /\ zOpen = FALSE
    /\ eofAt = "none"
    /\ current_branch = <<>>
    /\ bi = 1

NoObject ==
    /\ objectExists = FALSE
    /\ zlibValid = FALSE
    /\ stream = <<>>
    /\ endErr = FALSE
    /\ input = NoInput

NoRefs ==
    /\ refsDirOk = FALSE
    /\ head = [exists |-> FALSE, content |-> <<>>]
    /\ branches = <<>>

Init ==
    /\ InitRun
    /\ flags \in [branch : BOOLEAN, hash : BOOLEAN]
    /\ IF flags.branch
       THEN /\ NoObject
            /\ refsDirOk \in BOOLEAN
            /\ IF refsDirOk
               THEN /\ head \in {[exists |-> TRUE, content |-> c] : c \in HeadFiles}
                               \cup {[exists |-> FALSE, content |-> <<>>]}
                    /\ branches \in BranchDirs
               ELSE /\ head = [exists |-> FALSE, content |-> <<>>]
                    /\ branches = <<>>
       ELSE IF flags.hash
       THEN /\ NoRefs
            /\ objectExists \in BOOLEAN
            /\ zlibValid \in IF objectExists THEN BOOLEAN ELSE {FALSE}
            /\ IF zlibValid
               THEN /\ input \in StreamInputs
                    /\ stream = StreamOf(input)
                    /\ endErr \in BOOLEAN
               ELSE /\ input = NoInput
                    /\ stream = <<>>
                    /\ endErr = FALSE
       ELSE NoObject /\ NoRefs

(***************************************************************************)
(* The steps of a run.  A panic or a log.Fatal ends the run where it is:   *)
(* exit is set, pc stays, and nothing that would have followed happens.    *)
(***************************************************************************)
\* main: --branch wins over --hash; with neither, a hint is printed.
Main ==
    /\ pc = "main" /\ exit = "running"
    /\ IF flags.branch
       THEN pc' = "listBranches" /\ UNCHANGED <<exit, out>>
       ELSE IF flags.hash
       THEN pc' = "open" /\ UNCHANGED <<exit, out>>
       ELSE /\ out' = Append(out, Ev("noflag", <<>>, <<>>, <<>>, 0))
            /\ pc' = "done"
            /\ exit' = "ok"
    /\ UNCHANGED <<inputs, pos, header, fileOpen, zOpen, eofAt, current_branch, bi>>

\* parseObjectFile: os.Open, log.Fatal when it fails.
OpenObjectFile ==
    /\ pc = "open" /\ exit = "running"
    /\ IF objectExists
       THEN fileOpen' = TRUE /\ pc' = "zlib" /\ UNCHANGED exit
       ELSE exit' = "fatal" /\ UNCHANGED <<fileOpen, pc>>
    /\ UNCHANGED <<inputs, pos, header, out, zOpen, eofAt, current_branch, bi>>

\* parseObjectFile: zlib.NewReader, log.Fatal when it fails.
NewZlibReader ==
    /\ pc = "zlib" /\ exit = "running"
    /\ IF zlibValid
       THEN zOpen' = TRUE /\ pc' = "header" /\ UNCHANGED exit
       ELSE exit' = "fatal" /\ UNCHANGED <<zOpen, pc>>
    /\ UNCHANGED <<inputs, pos, header, out, fileOpen, eofAt, current_branch, bi>>

\* printObjectFileContent: header := parseObjectHeader(bufScanner)
ReadHeader ==
    /\ pc = "header" /\ exit = "running"
    /\ LET r == parseObjectHeader(stream, pos, endErr)
       IN  /\ pos' = r.pos
           /\ eofAt' = IF r.eof THEN "header" ELSE eofAt
           /\ IF r.end = "ok"
              THEN header' = r.header /\ pc' = "summary" /\ UNCHANGED exit
              ELSE exit' = r.end /\ UNCHANGED <<header, pc>>
    /\ UNCHANGED <<inputs, out, fileOpen, zOpen, current_branch, bi>>

\* printObjectFileContent: the summary line, then the choice of the decoder.
PrintSummary ==
    /\ pc = "summary" /\ exit = "running"
    /\ out' = out \o headerSummary(header)
    /\ pc' = bodyDecoderFor(header.objectType)
    /\ UNCHANGED <<inputs, exit, pos, header, fileOpen, zOpen, eofAt, current_branch, bi>>

\* printTreeContent, one turn of its loop.
TreeStep ==
    /\ pc = "tree" /\ exit = "running"
    /\ LET r == printTreeEntry(stream, pos, endErr)
       IN  /\ pos' = r.pos
           /\ out' = out \o r.out
           /\ eofAt' = IF r.at # "none" THEN r.at ELSE eofAt
           /\ IF r.end = "ok" THEN UNCHANGED <<pc, exit>>
              ELSE IF r.end = "return" THEN pc' = "close" /\ UNCHANGED exit
              ELSE exit' = r.end /\ UNCHANGED pc
    /\ UNCHANGED <<inputs, header, fileOpen, zOpen, current_branch, bi>>

\* printBlobContent(bufScanner, header.length)
BlobBody ==
    /\ pc = "blob" /\ exit = "running"
    /\ LET r == printBlobContent(stream, pos, header.length, endErr)
       IN  /\ pos' = r.pos
           /\ out' = out \o r.out
           /\ eofAt' = IF r.eof THEN "body" ELSE eofAt
           /\ IF r.end = "ok" THEN pc' = "close" /\ UNCHANGED exit
              ELSE exit' = r.end /\ UNCHANGED pc
    /\ UNCHANGED <<inputs, header, fileOpen, zOpen, current_branch, bi>>

\* printCommitContent(bufScanner, header.length)
CommitBody ==
    /\ pc = "commit" /\ exit = "running"
    /\ LET r == printCommitContent(stream, pos, header.length, endErr)
       IN  /\ pos' = r.pos
           /\ out' = out \o r.out
           /\ eofAt' = IF r.eof THEN "body" ELSE eofAt
           /\ IF r.end = "ok" THEN pc' = "close" /\ UNCHANGED exit
              ELSE exit' = r.end /\ UNCHANGED pc
    /\ UNCHANGED <<inputs, header, fileOpen, zOpen, current_branch, bi>>

\* fmt.Println("Parsing this tag-type not yet supported")
UnsupportedBody ==
    /\ pc = "unsupported" /\ exit = "running"
    /\ out' = Append(out, Ev("unsupported", <<>>, <<>>, <<>>, 0))
    /\ pc' = "close"
    /\ UNCHANGED <<inputs, exit, pos, header, fileOpen, zOpen, eofAt, current_branch, bi>>

\* parseObjectFile: contentReader.Close(), then main returns.  objectFile is
\* not closed by the program.
CloseReader ==
    /\ pc = "close" /\ exit = "running"
    /\ zOpen' = FALSE
    /\ pc' = "done"
    /\ exit' = "ok"
    /\ UNCHANGED <<inputs, pos, header, out, fileOpen, eofAt, current_branch, bi>>

\* listBranches up to its loop: ReadDir, then readFile(".git/HEAD").
ListBranchesStart ==
    /\ pc = "listBranches" /\ exit = "running"
    /\ LET r == readFile(head)
       IN  IF ~refsDirOk
           THEN exit' = "fatal" /\ UNCHANGED <<pc, current_branch>>
           ELSE IF r.end # "ok"
           THEN exit' = r.end /\ UNCHANGED <<pc, current_branch>>
           ELSE current_branch' = r.text /\ pc' = "branchLoop" /\ UNCHANGED exit
    /\ UNCHANGED <<inputs, pos, header, out, fileOpen, zOpen, eofAt, bi>>

\* listBranches, one turn of its loop.
ListBranchStep ==
    /\ pc = "branchLoop" /\ exit = "running"
    /\ bi <= Len(branches)
    /\ LET r == listBranch(branches[bi], current_branch)
       IN  /\ out' = out \o r.out
           /\ IF r.end = "ok" THEN bi' = bi + 1 /\ UNCHANGED exit
              ELSE exit' = r.end /\ UNCHANGED bi
    /\ UNCHANGED <<inputs, pc, pos, header, fileOpen, zOpen, eofAt, current_branch>>

\* listBranches returns after the last entry, and main after it.
ListBranchesEnd ==
    /\ pc = "branchLoop" /\ exit = "running"
    /\ bi > Len(branches)
    /\ pc' = "done"
    /\ exit' = "ok"
    /\ UNCHANGED <<inputs, pos, header, out, fileOpen, zOpen, eofAt, current_branch, bi>>

Next ==
    \/ Main
    \/ OpenObjectFile
    \/ NewZlibReader
    \/ ReadHeader
    \/ PrintSummary
    \/ TreeStep
    \/ BlobBody
    \/ CommitBody
    \/ UnsupportedBody
    \/ CloseReader
    \/ ListBranchesStart
    \/ ListBranchStep
    \/ ListBranchesEnd

Spec == Init /\ [][Next]_vars

(***************************************************************************)
(* Vocabulary of the properties, stated on the input bytes themselves.     *)
(***************************************************************************)
HashRun == ~flags.branch /\ flags.hash

AfterSummary == {"tree", "blob", "commit", "unsupported", "close", "done"}

HeaderParsed == HashRun /\ pc \in AfterSummary \cup {"summary"}

HeaderFailed == HashRun /\ pc = "header" /\ exit # "running"

\* The index of the first NUL of s, 0 when s holds none.
FirstNul(s) == IF Positions(s, 0, NUL) = {} THEN 0 ELSE Min(Positions(s, 0, NUL))

TextBeforeNul(s) == SubSeq(s, 1, FirstNul(s) - 1)

SpaceAt(t) == Min(Positions(t, 0, SP))

FirstField(t) == SubSeq(t, 1, SpaceAt(t) - 1)

SecondField(t) == SubSeq(t, SpaceAt(t) + 1, Len(t))

Unsigned(t) == IF t # <<>> /\ t[1] \in {43, 45} THEN Tail(t) ELSE t

IsIntegerText(t) == Unsigned(t) # <<>> /\ \A i \in 1..Len(Unsigned(t)) : IsDigit(Unsigned(t)[i])

RECURSIVE Magnitude(_)
\* The number a digit string writes, taken from its last digit backwards.
Magnitude(t) ==
    IF t = <<>> THEN 0 ELSE (t[Len(t)] - 48) + 10 * Magnitude(SubSeq(t, 1, Len(t) - 1))

IntegerValue(t) == IF t[1] = 45 THEN 0 - Magnitude(Unsigned(t)) ELSE Magnitude(Unsigned(t))

ValidHeader(s) ==
    /\ FirstNul(s) > 0
    /\ Cardinality(Positions(TextBeforeNul(s), 0, SP)) = 1
    /\ IsIntegerText(SecondField(TextBeforeNul(s)))

\* The body bytes the stream holds after the header's NUL.
BodySupplied == Len(stream) - FirstNul(stream)

BodyRead == pos - FirstNul(stream)

Smaller(a, b) == IF a < b THEN a ELSE b

SummaryOf(h) == Ev("summary", h.objectType, <<>>, <<>>, h.length)

(***************************************************************************)
(* C1.                                                                     *)
(***************************************************************************)
\* C1: once parseObjectHeader has run, a stream that begins with a valid
\* header "<type> <N>\0" has yielded exactly {type, N} with the scanner
\* right after the first NUL, and any other stream (no NUL, not exactly one
\* space before the first NUL, or a second field that is no integer) has
\* ended the run fatally with no header and no output.
C1_HeaderDecoder ==
    (HeaderParsed \/ HeaderFailed) =>
        IF ValidHeader(stream)
        THEN /\ HeaderParsed
             /\ header.objectType = FirstField(TextBeforeNul(stream))
             /\ header.length = IntegerValue(SecondField(TextBeforeNul(stream)))
             /\ pc = "summary" => pos = FirstNul(stream)
        ELSE /\ HeaderFailed
             /\ exit \in {"panic", "fatal"}
             /\ header = NoHeader
             /\ out = <<>>

C1_Witness ==
    /\ pc = "summary"
    /\ header = [objectType |-> TypeCommit, length |-> TruncatedSize + 1]
    /\ pos = FirstNul(stream)
    /\ Len(stream) > pos

(***************************************************************************)
(* C2.                                                                     *)
(***************************************************************************)
BlobReturned == HashRun /\ header.objectType = TypeBlob /\ pc \in {"close", "done"}

BlobEnded == BlobReturned \/ (HashRun /\ pc = "blob" /\ exit # "running")

\* C2: when printBlobContent has run with a declared length N >= 0 on a
\* stream that supplies at least N body bytes, it has returned, having read
\* exactly min(N, 3072) body bytes and printed exactly those bytes in stream
\* order, followed by the truncation notice if and only if N > 3072; the
\* scanner stays there, so the other N - 3072 bytes are never read.
C2_BlobDecoder ==
    (BlobEnded /\ header.length >= 0 /\ BodySupplied >= header.length) =>
        /\ BlobReturned
        /\ BodyRead = Smaller(header.length, TruncatedSize)
        /\ out[1] = SummaryOf(header)
        /\ out[2] = Ev("text", <<>>, <<>>,
                       SubSeq(stream, FirstNul(stream) + 1,
                              FirstNul(stream) + Smaller(header.length, TruncatedSize)),
                       0)
        /\ IF header.length > TruncatedSize
           THEN Len(out) = 3 /\ out[3] = Ev("truncated", <<>>, <<>>, <<>>, 0)
           ELSE Len(out) = 2

C2_Witness ==
    /\ BlobReturned /\ exit = "ok"
    /\ header.length = BigBody
    /\ BodySupplied = BigBody
    /\ BodyRead = TruncatedSize
    /\ out[Len(out)].kind = "truncated"

(***************************************************************************)
(* C3.                                                                     *)
(***************************************************************************)
HexChar(d) == IF d < 10 THEN 48 + d ELSE 87 + d

RECURSIVE HexOf(_)
HexOf(bytes) ==
    IF bytes = <<>> THEN <<>>
    ELSE <<HexChar(Head(bytes) \div 16), HexChar(Head(bytes) % 16)>> \o HexOf(Tail(bytes))

RECURSIVE RecordsOf(_)
\* The records of the entries a tree body was built from, in their order.
RecordsOf(idx) ==
    IF idx = <<>> THEN <<>>
    ELSE <<Ev("entry", EntryPool[Head(idx)].mode, EntryPool[Head(idx)].name,
              HexOf(EntryPool[Head(idx)].sha), 0)>> \o RecordsOf(Tail(idx))

WellFormedTree ==
    /\ HeaderParsed /\ header.objectType = TypeTree
    /\ input.shape = "ok" /\ input.kind = "tree" /\ input.tail = 1
    /\ ~endErr

\* C3: on a stream that holds, after a tree header, k >= 0 well-formed
\* entries and then ends, printTreeContent never fails, prints the entries'
\* records {mode, name, 40 lowercase hex characters} in stream order (a NUL
\* among the 20 hash bytes included) and returns with exactly those k
\* records printed and the whole stream read, whatever length the header
\* declares.
C3_TreeDecoder ==
    (WellFormedTree /\ pc # "summary") =>
        /\ exit \in {"running", "ok"}
        /\ Len(out) - 1 <= Len(input.entries)
        /\ out = <<SummaryOf(header)>> \o SubSeq(RecordsOf(input.entries), 1, Len(out) - 1)
        /\ pc \in {"close", "done"} =>
              /\ Len(out) - 1 = Len(input.entries)
              /\ pos = Len(stream)

C3_Witness ==
    /\ WellFormedTree /\ exit = "ok"
    /\ header.length = 0
    /\ Len(out) = 3
    /\ stream[FirstNul(stream) + 16] = NUL
    /\ stream[FirstNul(stream) + 17] = NUL
    /\ out[2] = Ev("entry", <<49, 48, 48, 54, 52, 52>>,
                   <<102, 105, 108, 101, 46, 116, 120, 116>>,
                   <<48, 48, 48, 49, 48, 50, 48, 51, 48, 52, 48, 53, 48, 54, 48, 55,
                     48, 56, 48, 57, 48, 97, 48, 98, 48, 99, 48, 100, 48, 101, 48, 102,
                     49, 48, 49, 49, 49, 50, 49, 51>>, 0)

(***************************************************************************)
(* C4.                                                                     *)
(***************************************************************************)
BodyReturned ==
    /\ HashRun /\ pc \in {"close", "done"}
    /\ header.objectType \in {TypeBlob, TypeCommit}

\* C4 as stated: after printBlobContent or printCommitContent has returned
\* on a stream that supplies the full body of a declared length N >= 0, the
\* scanner is exactly N bytes past the header's NUL.
C4_ConsumesDeclaredLength ==
    (BodyReturned /\ header.length >= 0 /\ BodySupplied >= header.length) =>
        BodyRead = header.length

\* C4 as amended: after printCommitContent has returned the scanner is
\* exactly N bytes past the header's NUL, and after printBlobContent has
\* returned it is exactly min(N, 3072) bytes past it; a negative N leaves
\* it at the header's NUL.
C4_ConsumesUpToCap ==
    (BodyReturned /\ BodySupplied >= header.length) =>
        IF header.length < 0 THEN BodyRead = 0
        ELSE IF header.objectType = TypeBlob
        THEN BodyRead = Smaller(header.length, TruncatedSize)
        ELSE BodyRead = header.length

C4_Witness ==
    /\ BodyReturned /\ exit = "ok"
    /\ header.objectType = TypeBlob
    /\ header.length = TruncatedSize + 1
    /\ BodySupplied >= header.length
    /\ BodyRead = TruncatedSize

(***************************************************************************)
(* C5.                                                                     *)
(***************************************************************************)
\* C5 as stated: a header that parseObjectHeader has accepted never holds a
\* negative length, so neither printBlobContent nor printCommitContent is
\* entered with one.
C5_NoNegativeLength == HeaderParsed => header.length >= 0

(***************************************************************************)
(* C6.                                                                     *)
(***************************************************************************)
\* The stream ends cleanly inside a tree entry: in its "<mode> <name>" text
\* or in its 20 hash bytes.
EndsInsideEntry ==
    /\ HeaderParsed /\ header.objectType = TypeTree
    /\ input.shape = "ok" /\ input.kind = "tree" /\ input.tail \in {2, 3}
    /\ ~endErr

\* The stream ends cleanly before a blob or commit body read has the bytes
\* it asks for.
EndsInsideBody ==
    /\ HeaderParsed /\ header.objectType \in {TypeBlob, TypeCommit}
    /\ ~endErr
    /\ IF header.objectType = TypeBlob
       THEN BodySupplied < Smaller(header.length, TruncatedSize)
       ELSE BodySupplied < header.length

\* C6: in a hash-lookup run the scanner meets a clean end of input without
\* the run failing only where printTreeContent starts a new entry, and
\* then the decoder returns; a clean end of input before the header's NUL,
\* inside a tree entry's text, inside its 20 hash bytes, or inside a blob or
\* commit body read panics, and the run that ends normally has met no other.
C6_EndOfStream ==
    HashRun =>
        /\ eofAt \in {"header", "treeMetadata", "treeSha", "body"} => exit = "panic"
        /\ eofAt = "treeEntryStart" => exit \in {"running", "ok"} /\ pc \in {"close", "done"}
        /\ exit = "ok" => eofAt \in {"none", "treeEntryStart"}
        /\ (HeaderFailed /\ FirstNul(stream) = 0 /\ ~endErr) => exit = "panic" /\ eofAt = "header"
        /\ EndsInsideEntry => pc \in {"summary", "tree"}
        /\ (EndsInsideEntry /\ pos = Len(stream)) =>
              exit = "panic" /\ eofAt = (IF input.tail = 2 THEN "treeMetadata" ELSE "treeSha")
        /\ EndsInsideBody => pc \in {"summary", "blob", "commit"}
        /\ (EndsInsideBody /\ pos > FirstNul(stream)) => exit = "panic" /\ eofAt = "body"

C6_Witness ==
    /\ HashRun /\ exit = "ok"
    /\ eofAt = "treeEntryStart"
    /\ pos = Len(stream)
    /\ Len(out) = 1 + MaxEntries

(***************************************************************************)
(* C7.                                                                     *)
(***************************************************************************)
\* C7: in a hash-lookup run, as long as the header has not been parsed, or
\* once it has failed to parse, nothing has been printed; once it is parsed,
\* the first thing printed is the summary of that header, for every type, and
\* until it is printed no body byte has been read and nothing else printed.
C7_SummaryFirst ==
    HashRun =>
        /\ pc \in {"main", "open", "zlib", "header"} => out = <<>>
        /\ pc = "summary" => out = <<>> /\ pos = FirstNul(stream)
        /\ pc \in AfterSummary => Len(out) >= 1 /\ out[1] = SummaryOf(header)
        /\ \A i \in 2..Len(out) : out[i].kind # "summary"
        /\ (pos > FirstNul(stream) /\ HeaderParsed) => Len(out) >= 1 /\ out[1].kind = "summary"

C7_Witness ==
    /\ HashRun /\ pc = "unsupported"
    /\ out = <<Ev("summary", TypeTag, <<>>, <<>>, BigBody)>>
    /\ pos = FirstNul(stream)
    /\ Len(stream) > pos

(***************************************************************************)
(* C8.                                                                     *)
(***************************************************************************)
UnsupportedType == HeaderParsed /\ header.objectType \notin {TypeBlob, TypeTree, TypeCommit}

\* C8: with a header whose type is none of blob, tree, commit, the run
\* never fails and never reads past the header's NUL, whatever the declared
\* length and the bytes that follow, and it ends normally having printed
\* the summary and the unsupported-kind notice and nothing else.
C8_UnsupportedKind ==
    UnsupportedType =>
        /\ pc \in {"summary", "unsupported", "close", "done"}
        /\ exit \in {"running", "ok"}
        /\ pos = FirstNul(stream)
        /\ pc \in {"close", "done"} =>
              out = <<SummaryOf(header), Ev("unsupported", <<>>, <<>>, <<>>, 0)>>
        /\ pc = "done" => exit = "ok"

C8_Witness ==
    /\ UnsupportedType /\ exit = "ok"
    /\ header = [objectType |-> TypeTag, length |-> BigBody]
    /\ BodySupplied > 0
    /\ pos = FirstNul(stream)
    /\ Len(out) = 2

(***************************************************************************)
(* C9.                                                                     *)
(***************************************************************************)
\* C9 as stated: when a hash-lookup run has ended, normally or fatally, the
\* object file and the zlib reader are both closed.
C9_ReleasedOnExit == (HashRun /\ exit # "running") => (~fileOpen /\ ~zOpen)

(***************************************************************************)
(* C10.                                                                    *)
(***************************************************************************)
HoldsHash(file) == file.content \in {HashText, HashText \o <<LF>>}

\* C10 as stated: every branch whose file holds a 40-character hash, with
\* or without a newline after it, is printed with that whole hash, and the
\* listing fails at such a file only for what .git/HEAD holds.
C10_WholeHash ==
    flags.branch =>
        /\ \A i \in 1..Len(out) :
              (out[i].kind = "branch" /\ HoldsHash(branches[i])) => out[i].b = HashText
        /\ (pc = "branchLoop" /\ exit \in {"panic", "fatal"} /\ HoldsHash(branches[bi])) =>
              Len(Split(current_branch, SLASH)) < 3

====
